---- MODULE Spec2Model ----
(***************************************************************************)
(* Transaction enrichment engine: the Normalizer (preprocessing.py) and    *)
(* the Classifier (enrichment.py) as state machines over a table.          *)
(*                                                                         *)
(* A table (pandas DataFrame) is a record                                  *)
(*     [dtypes : column name -> dtype, rows : Seq(column name -> cell)]    *)
(* and a cell is a tagged value [k, v]:                                    *)
(*     "str"  v = the text, a sequence of one-character strings            *)
(*     "lbl"  v = a classification label (a Python str never searched)     *)
(*     "num"  v = a number                                                 *)
(*     "nan"  the missing value (NaN)                                      *)
(*     "date" v = a day number,  "nat" the missing date (NaT)              *)
(***************************************************************************)
EXTENDS Integers, Sequences, FiniteSets, TLC

VARIABLES
    df,         \* the table the running function works on (mutated in place)
    df0,        \* the table as it was handed to the first function called
    pc,         \* position of the running function
    ruleIdx,    \* enrich_transactions: index of the next rule of the loop
    ruleTable,  \* enrich_transactions: the ordered rule list in use
    calls,      \* number of completed enrich_transactions calls on df
    first,      \* the table returned by the first enrich_transactions call
    exc,        \* the exception that ended the run, or NoExc
    build,      \* what Series.astype(str) makes of NaN in the installed pandas
    vargs,      \* validate_schema: its arguments besides df
    noise       \* normalize_text_fields: its noise_patterns argument

vars == <<df, df0, pc, ruleIdx, ruleTable, calls, first, exc, build, vargs, noise>>

----------------------------------------------------------------------------
(* Bounds of the model.                                                    *)

MaxRows == 2
MaxCalls == 2

----------------------------------------------------------------------------
(* Cells.                                                                  *)

NaN == [k |-> "nan", v |-> 0]
NaT == [k |-> "nat", v |-> 0]
Num(n) == [k |-> "num", v |-> n]
Str(s) == [k |-> "str", v |-> s]
Lbl(x) == [k |-> "lbl", v |-> x]
Date(d) == [k |-> "date", v |-> d]

NoExc == [type |-> "none", arg |-> <<>>]
Raise(t, a) == [type |-> t, arg |-> a]

NoArgs == [expected |-> <<>>, numeric |-> <<>>, date |-> <<>>]

----------------------------------------------------------------------------
(* Text: Python str methods on sequences of characters.                    *)

UpperChars == <<"A","B","C","D","E","F","G","H","I","J","K","L","M",
                "N","O","P","Q","R","S","T","U","V","W","X","Y","Z">>
LowerChars == <<"a","b","c","d","e","f","g","h","i","j","k","l","m",
                "n","o","p","q","r","s","t","u","v","w","x","y","z">>

\* the lowercase letter of each uppercase letter
LowerOf ==
    [c \in {UpperChars[i] : i \in DOMAIN UpperChars} |->
        LowerChars[CHOOSE i \in DOMAIN UpperChars : UpperChars[i] = c]]

\* str.lower() on one character
LowerChar(c) == IF c \in DOMAIN LowerOf THEN LowerOf[c] ELSE c

\* str.lower()
Lower(s) == [i \in DOMAIN s |-> LowerChar(s[i])]

IsSpace(c) == c \in {" ", "\t", "\n"}

\* str.lstrip(), str.rstrip(), str.strip()
RECURSIVE LStrip(_)
LStrip(s) ==
    IF s # <<>> /\ IsSpace(Head(s)) THEN LStrip(Tail(s)) ELSE s

RECURSIVE RStrip(_)
RStrip(s) ==
    IF s # <<>> /\ IsSpace(s[Len(s)]) THEN RStrip(SubSeq(s, 1, Len(s) - 1)) ELSE s

Strip(s) == RStrip(LStrip(s))

\* p occurs in s at position i (case-sensitive)
OccursAt(p, s, i) ==
    /\ i >= 1
    /\ i + Len(p) - 1 <= Len(s)
    /\ SubSeq(s, i, i + Len(p) - 1) = p

\* Python `p in s`
Occurs(p, s) == \E i \in 1..(Len(s) + 1) : OccursAt(p, s, i)

\* str.replace(p, ''): one left-to-right pass over the non-overlapping
\* occurrences of p; the empty p leaves s as it is
RECURSIVE ReplaceAllOnce(_, _)
ReplaceAllOnce(p, s) ==
    IF p = <<>> \/ Len(s) < Len(p) THEN s
    ELSE IF OccursAt(p, s, 1)
         THEN ReplaceAllOnce(p, SubSeq(s, Len(p) + 1, Len(s)))
         ELSE <<Head(s)>> \o ReplaceAllOnce(p, Tail(s))

----------------------------------------------------------------------------
(* Tables.                                                                 *)

Cols(t) == DOMAIN t.dtypes
NRows(t) == Len(t.rows)

\* df[c] = vals (a column of NRows(t) cells), creating or replacing column c
SetColumn(t, c, dt, vals) ==
    [dtypes |-> [x \in Cols(t) \cup {c} |-> IF x = c THEN dt ELSE t.dtypes[x]],
     rows   |-> [i \in DOMAIN t.rows |->
                   [x \in Cols(t) \cup {c} |->
                       IF x = c THEN vals[i] ELSE t.rows[i][x]]]]

\* df[c] = scalar
SetScalar(t, c, dt, cell) ==
    SetColumn(t, c, dt, [i \in DOMAIN t.rows |-> cell])

\* Series.astype(str): text stays; NaN becomes the text 'nan' in a pandas
\* whose str columns are object columns, and stays missing in a pandas with
\* a string dtype.  Only text columns (str or missing cells) are converted.
AsTypeStr(cell) ==
    CASE cell.k = "str" -> cell
      [] cell.k = "nan" -> IF build = "nan_text" THEN Str(<<"n","a","n">>) ELSE NaN

----------------------------------------------------------------------------
(* The rule list.                                                          *)

\* A pattern is the list of its alternatives, each a literal; compiles says
\* whether re.compile accepts it.
Rule(alts, merchant_class, transaction_class, is_credit_card, reason) ==
    [pattern |-> [compiles |-> TRUE, alts |-> alts],
     merchant_class |-> merchant_class,
     transaction_class |-> transaction_class,
     is_credit_card |-> is_credit_card,
     reason |-> reason]

rules ==
  <<
    \* r'(visa|mastercard|amex|american express)'
    Rule(<<<<"v","i","s","a">>,
         <<"m","a","s","t","e","r","c","a","r","d">>,
         <<"a","m","e","x">>,
         <<"a","m","e","r","i","c","a","n"," ","e","x","p","r","e","s","s">>>>,
         "financial service", "credit card payment", 1, "credit card type matched"),
    \* r'(stripe|paypal)'
    Rule(<<<<"s","t","r","i","p","e">>,
         <<"p","a","y","p","a","l">>>>,
         "payment gateway", "online payment", 0, "payment gateway matched"),
    \* r'(amazon|shopee|ebay|etsy)'
    Rule(<<<<"a","m","a","z","o","n">>,
         <<"s","h","o","p","e","e">>,
         <<"e","b","a","y">>,
         <<"e","t","s","y">>>>,
         "ecommerce", "online shopping", 0, "ecommerce site matched"),
    \* r'(salary|payroll|income|deposit)'
    Rule(<<<<"s","a","l","a","r","y">>,
         <<"p","a","y","r","o","l","l">>,
         <<"i","n","c","o","m","e">>,
         <<"d","e","p","o","s","i","t">>>>,
         "employer", "income", 0, "income keyword matched"),
    \* r'(atm|cash|withdrawal)'
    Rule(<<<<"a","t","m">>,
         <<"c","a","s","h">>,
         <<"w","i","t","h","d","r","a","w","a","l">>>>,
         "bank", "cash withdrawal", 0, "atm/cash keyword matched"),
    \* r'starbucks'
    Rule(<<<<"s","t","a","r","b","u","c","k","s">>>>,
         "coffee shop", "dining", 0, "starbucks matched"),
    \* r'netflix'
    Rule(<<<<"n","e","t","f","l","i","x">>>>,
         "entertainment", "subscription", 0, "netflix matched"),
    \* r'restaurant|cafe|diner'
    Rule(<<<<"r","e","s","t","a","u","r","a","n","t">>,
         <<"c","a","f","e">>,
         <<"d","i","n","e","r">>>>,
         "dining", "food & drinks", 0, "restaurant/cafe matched"),
    \* r'grocery|supermarket'
    Rule(<<<<"g","r","o","c","e","r","y">>,
         <<"s","u","p","e","r","m","a","r","k","e","t">>>>,
         "groceries", "food & drinks", 0, "grocery matched"),
    \* r'fuel|gas station'
    Rule(<<<<"f","u","e","l">>,
         <<"g","a","s"," ","s","t","a","t","i","o","n">>>>,
         "automotive", "transportation", 0, "fuel matched"),
    \* r'telecom|phone bill'
    Rule(<<<<"t","e","l","e","c","o","m">>,
         <<"p","h","o","n","e"," ","b","i","l","l">>>>,
         "utilities", "bills", 0, "telecom matched"),
    \* r'utility|electricity|water'
    Rule(<<<<"u","t","i","l","i","t","y">>,
         <<"e","l","e","c","t","r","i","c","i","t","y">>,
         <<"w","a","t","e","r">>>>,
         "utilities", "bills", 0, "utility matched"),
    \* r'rent|mortgage'
    Rule(<<<<"r","e","n","t">>,
         <<"m","o","r","t","g","a","g","e">>>>,
         "housing", "bills", 0, "housing matched"),
    \* r'insurance'
    Rule(<<<<"i","n","s","u","r","a","n","c","e">>>>,
         "financial service", "insurance", 0, "insurance matched"),
    \* r'travel|airline|hotel'
    Rule(<<<<"t","r","a","v","e","l">>,
         <<"a","i","r","l","i","n","e">>,
         <<"h","o","t","e","l">>>>,
         "travel", "travel", 0, "travel matched"),
    \* r'hospital|clinic|pharmacy'
    Rule(<<<<"h","o","s","p","i","t","a","l">>,
         <<"c","l","i","n","i","c">>,
         <<"p","h","a","r","m","a","c","y">>>>,
         "health", "healthcare", 0, "medical matched"),
    \* r'gym|fitness'
    Rule(<<<<"g","y","m">>,
         <<"f","i","t","n","e","s","s">>>>,
         "health", "fitness", 0, "fitness matched"),
    \* r'education|school'
    Rule(<<<<"e","d","u","c","a","t","i","o","n">>,
         <<"s","c","h","o","o","l">>>>,
         "education", "education", 0, "education matched")
  >>

NoRuleMatched == "no rule matched"
Other == "other"

\* re.search(pattern, text, re.IGNORECASE) for a compiled pattern
Search(pattern, text) ==
    LET folded == Lower(text)
    IN  \E a \in DOMAIN pattern.alts :
            LET alt == Lower(pattern.alts[a]) IN Occurs(alt, folded)

\* Series.str.contains(pattern, case=False, na=False, regex=True) on one cell
StrContains(cell, pattern) ==
    IF cell.k = "nan" THEN FALSE ELSE Search(pattern, cell.v)

\* mutant: the entity column is not searched
RowMatchesNameOnly(row, pattern) ==
    StrContains(AsTypeStr(row["TransactionName"]), pattern)

\* match_name | match_entity for one row
RowMatches(row, pattern) ==
    \/ StrContains(AsTypeStr(row["TransactionName"]), pattern)
    \/ StrContains(AsTypeStr(row["NormalizedEntity"]), pattern)

\* mutant: the unmatched mask is dropped, so a later rule overwrites
MatchedRowsNoMask(t, pattern) ==
    [i \in DOMAIN t.rows |->
        \/ StrContains(AsTypeStr(t.rows[i]["TransactionName"]), pattern)
        \/ StrContains(AsTypeStr(t.rows[i]["NormalizedEntity"]), pattern)]

\* matched_rows = unmatched_mask & (match_name | match_entity)
MatchedRows(t, pattern) ==
    [i \in DOMAIN t.rows |->
        /\ t.rows[i]["Reason"] = Lbl(NoRuleMatched)
        /\ RowMatches(t.rows[i], pattern)]

\* the four df.loc[matched_rows, ...] assignments of one loop iteration
ApplyRule(t, rule) ==
    LET m == MatchedRows(t, rule.pattern)
    IN  [t EXCEPT !.rows = [i \in DOMAIN t.rows |->
            IF m[i]
            THEN [t.rows[i] EXCEPT
                     !["MerchantClassification"] = Lbl(rule.merchant_class),
                     !["TransactionClassification"] = Lbl(rule.transaction_class),
                     !["IsCreditCardExpense"] = Num(rule.is_credit_card),
                     !["Reason"] = Lbl(rule.reason)]
            ELSE t.rows[i]]]

\* mutant: classification columns the table already has are kept
InitColumnsKeep(t) ==
    LET keep(u, c, dt, cell) == IF c \in Cols(u) THEN u ELSE SetScalar(u, c, dt, cell)
        t1 == keep(t,  "MerchantClassification", "object", Lbl("other"))
        t2 == keep(t1, "TransactionClassification", "object", Lbl("other"))
        t3 == keep(t2, "IsCreditCardExpense", "int64", Num(0))
    IN  keep(t3, "Reason", "object", Lbl("no rule matched"))

\* the four column initialisations
InitColumns(t) ==
    LET t1 == SetScalar(t,  "MerchantClassification", "object", Lbl(Other))
        t2 == SetScalar(t1, "TransactionClassification", "object", Lbl(Other))
        t3 == SetScalar(t2, "IsCreditCardExpense", "int64", Num(0))
    IN  SetScalar(t3, "Reason", "object", Lbl(NoRuleMatched))

----------------------------------------------------------------------------
(* enrich_transactions(df), one action per step of its body.               *)

EnrichInit ==
    /\ pc = "enrich_call"
    /\ df' = InitColumns(df)
    /\ ruleIdx' = 1
    /\ pc' = "enrich_loop"
    /\ UNCHANGED <<df0, ruleTable, calls, first, exc, build, vargs, noise>>

\* One iteration of the rule loop.  df['TransactionName'] raises KeyError
\* when the column is absent, str.contains raises re.error when the pattern
\* does not compile, then df['NormalizedEntity'] may raise KeyError.
EnrichRule ==
    /\ pc = "enrich_loop"
    /\ ruleIdx <= Len(ruleTable)
    /\ LET rule == ruleTable[ruleIdx] IN
         IF "TransactionName" \notin Cols(df)
         THEN /\ exc' = Raise("KeyError", <<"TransactionName">>)
              /\ pc' = "enrich_raised"
              /\ UNCHANGED <<df, ruleIdx>>
         ELSE IF ~rule.pattern.compiles
         THEN /\ exc' = Raise("re.error", <<>>)
              /\ pc' = "enrich_raised"
              /\ UNCHANGED <<df, ruleIdx>>
         ELSE IF "NormalizedEntity" \notin Cols(df)
         THEN /\ exc' = Raise("KeyError", <<"NormalizedEntity">>)
              /\ pc' = "enrich_raised"
              /\ UNCHANGED <<df, ruleIdx>>
         ELSE /\ df' = ApplyRule(df, rule)
              /\ ruleIdx' = ruleIdx + 1
              /\ UNCHANGED <<pc, exc>>
    /\ UNCHANGED <<df0, ruleTable, calls, first, build, vargs, noise>>

EnrichReturn ==
    /\ pc = "enrich_loop"
    /\ ruleIdx > Len(ruleTable)
    /\ pc' = "enrich_done"
    /\ calls' = calls + 1
    /\ first' = IF calls = 0 THEN df ELSE first
    /\ UNCHANGED <<df, df0, ruleIdx, ruleTable, exc, build, vargs, noise>>

\* the caller passes the returned table to enrich_transactions again
EnrichAgain ==
    /\ pc = "enrich_done"
    /\ calls < MaxCalls
    /\ pc' = "enrich_call"
    /\ UNCHANGED <<df, df0, ruleIdx, ruleTable, calls, first, exc, build, vargs, noise>>

----------------------------------------------------------------------------
(* Input tables of enrich_transactions: rows with TransactionName,         *)
(* NormalizedEntity and SignedAmount, with or without the four             *)
(* classification columns already present (holding earlier values).        *)

TxnRecord(name, entity, amount) ==
    [TransactionName |-> name, NormalizedEntity |-> entity, SignedAmount |-> amount]

TxnRecords ==
    { \* 'Misc XYZ' / 'Unknown': no rule matches
      TxnRecord(Str(<<"M","i","s","c"," ","X","Y","Z">>),
                Str(<<"U","n","k","n","o","w","n">>), Num(-10)),
      \* 'ETSY income' / missing: rules 3 and 4 match the name
      TxnRecord(Str(<<"E","T","S","Y"," ","i","n","c","o","m","e">>), NaN, Num(2000)),
      \* missing / 'Best Cafe': rule 8 matches the entity
      TxnRecord(NaN, Str(<<"B","e","s","t"," ","C","a","f","e">>), Num(-25)),
      \* missing / missing
      TxnRecord(NaN, NaN, Num(0)),
      \* 'PayPal' / 'visa': rule 2 matches the name, rule 1 the entity
      TxnRecord(Str(<<"P","a","y","P","a","l">>), Str(<<"v","i","s","a">>), Num(-45)) }

FourCols ==
    {"MerchantClassification", "TransactionClassification", "IsCreditCardExpense", "Reason"}

\* the four fields of a row
Four(row) == [c \in FourCols |-> row[c]]

\* values the four columns may hold before the call
PriorFours ==
    { [MerchantClassification |-> Lbl("bank"),
       TransactionClassification |-> Lbl("cash withdrawal"),
       IsCreditCardExpense |-> Num(1),
       Reason |-> Lbl("atm/cash keyword matched")],
      [MerchantClassification |-> Lbl("bank"),
       TransactionClassification |-> Lbl(Other),
       IsCreditCardExpense |-> Num(1),
       Reason |-> Lbl(NoRuleMatched)] }

BaseDtypes ==
    [TransactionName |-> "object", NormalizedEntity |-> "object", SignedAmount |-> "float64"]

FourDtypes ==
    [MerchantClassification |-> "object", TransactionClassification |-> "object",
     IsCreditCardExpense |-> "int64", Reason |-> "object"]

\* a table without the classification columns
PlainTable(recs) == [dtypes |-> BaseDtypes, rows |-> recs]

\* a table already holding classification columns
ClassifiedTable(recs, priors) ==
    [dtypes |-> BaseDtypes @@ FourDtypes,
     rows   |-> [i \in DOMAIN recs |-> recs[i] @@ priors[i]]]

EnrichInputs ==
    UNION { { PlainTable(recs) : recs \in [1..n -> TxnRecords] }
            \cup { ClassifiedTable(recs, priors) :
                     recs \in [1..n -> TxnRecords], priors \in [1..n -> PriorFours] }
            : n \in 1..MaxRows }

Builds == {"nan_text", "nan_kept"}

InitEnrichWith(table, rl) ==
    /\ df = table
    /\ df0 = table
    /\ pc = "enrich_call"
    /\ ruleIdx = 1
    /\ ruleTable = rl
    /\ calls = 0
    /\ first = table
    /\ exc = NoExc
    /\ build \in Builds
    /\ vargs = NoArgs
    /\ noise = <<>>

\* enrich_transactions as written: its own rule list
Init == \E t \in EnrichInputs : InitEnrichWith(t, rules)

Next == EnrichInit \/ EnrichRule \/ EnrichReturn \/ EnrichAgain

Spec == Init /\ [][Next]_vars

----------------------------------------------------------------------------
(* What the claims speak of.                                               *)

\* the four values a rule assigns
RuleOut(rule) ==
    [MerchantClassification |-> Lbl(rule.merchant_class),
     TransactionClassification |-> Lbl(rule.transaction_class),
     IsCreditCardExpense |-> Num(rule.is_credit_card),
     Reason |-> Lbl(rule.reason)]

Defaults ==
    [MerchantClassification |-> Lbl(Other),
     TransactionClassification |-> Lbl(Other),
     IsCreditCardExpense |-> Num(0),
     Reason |-> Lbl(NoRuleMatched)]

\* a pattern matches a field: the field holds text and the text contains it
FieldMatches(cell, pattern) ==
    /\ cell.k = "str"
    /\ \E a \in DOMAIN pattern.alts :
          \E i \in 1..Len(cell.v) :
             /\ i + Len(pattern.alts[a]) - 1 <= Len(cell.v)
             /\ \A j \in 1..Len(pattern.alts[a]) :
                   LowerChar(cell.v[i + j - 1]) = LowerChar(pattern.alts[a][j])

\* the rules whose pattern matches the record in either field
MatchingRules(row) ==
    {r \in DOMAIN ruleTable :
        \/ FieldMatches(row["TransactionName"], ruleTable[r].pattern)
        \/ FieldMatches(row["NormalizedEntity"], ruleTable[r].pattern)}

Earliest(S) == CHOOSE r \in S : \A q \in S : r <= q

IsMissing(cell) == cell.k = "nan"

\* C1: first match wins.  After enrich_transactions, a record that two rules
\* R1 < R2 both match holds the four values of its earliest matching rule and
\* not those of R2; and inside the rule loop a record that a rule has
\* assigned keeps its four fields in every later iteration.
C1_FirstMatchWins ==
    /\ [](pc = "enrich_done" =>
            \A i \in DOMAIN df.rows :
               \A r1, r2 \in MatchingRules(df.rows[i]) :
                  r1 < r2 =>
                     /\ Four(df.rows[i]) = RuleOut(ruleTable[Earliest(MatchingRules(df.rows[i]))])
                     /\ Four(df.rows[i]) # RuleOut(ruleTable[r2]))
    /\ [][(pc = "enrich_loop" /\ pc' = "enrich_loop") =>
             \A i \in DOMAIN df.rows :
                df.rows[i]["Reason"] # Lbl(NoRuleMatched) =>
                   Four(df'.rows[i]) = Four(df.rows[i])]_vars

\* C1 witness: a finished call on a table with a record that two rules match
C1_Witness ==
    /\ pc = "enrich_done"
    /\ \E i \in DOMAIN df.rows :
          /\ Cardinality(MatchingRules(df.rows[i])) >= 2
          /\ df.rows[i]["Reason"] # Lbl(NoRuleMatched)

\* C2: after enrich_transactions, Reason is the sentinel exactly when no rule
\* matches the record's name or entity, and exactly when the other three
\* fields hold their defaults.
C2_SentinelIffUnmatched ==
    pc = "enrich_done" =>
        \A i \in DOMAIN df.rows :
           LET row == df.rows[i]
               sentinel == row["Reason"] = Lbl(NoRuleMatched)
               atDefault ==
                   /\ row["MerchantClassification"] = Lbl(Other)
                   /\ row["TransactionClassification"] = Lbl(Other)
                   /\ row["IsCreditCardExpense"] = Num(0)
           IN  /\ sentinel <=> (MatchingRules(row) = {})
               /\ sentinel <=> atDefault

\* C2 witness: a finished call left a record matched through its entity alone
\* off the defaults, and a record no rule matches at the sentinel
C2_Witness ==
    /\ pc = "enrich_done"
    /\ \E i \in DOMAIN df.rows :
          /\ \A r \in DOMAIN ruleTable :
                ~FieldMatches(df.rows[i]["TransactionName"], ruleTable[r].pattern)
          /\ MatchingRules(df.rows[i]) # {}
          /\ df.rows[i]["Reason"] # Lbl(NoRuleMatched)
    /\ \E i \in DOMAIN df.rows :
          /\ MatchingRules(df.rows[i]) = {}
          /\ df.rows[i]["Reason"] = Lbl(NoRuleMatched)

\* the rule loop from rule k on, run on the one-record table t, ends with
\* the record's four fields equal to four
RECURSIVE RunGives(_, _, _)
RunGives(t, k, four) ==
    IF k > Len(ruleTable) THEN Four(t.rows[1]) = four
    ELSE \A next \in {ApplyRule(t, ruleTable[k])} : RunGives(next, k + 1, four)

\* enrich_transactions gives these four fields to a record that is alone in
\* a table without classification columns
AloneGives(name, entity, four) ==
    \A fresh \in {InitColumns(PlainTable(<<TxnRecord(name, entity, Num(0))>>))} :
        RunGives(fresh, 1, four)

\* C10: a record's four fields after enrich_transactions are those the same
\* name and entity get alone in a fresh table, whatever the other records and
\* whatever the four columns held before; a second call returns the table of
\* the first; every other column is as it was.
C10_RecordsIndependent ==
    pc = "enrich_done" =>
        /\ NRows(df) = NRows(df0)
        /\ Cols(df) = Cols(df0) \cup FourCols
        /\ \A i \in DOMAIN df.rows :
              \A c \in Cols(df0) \ FourCols : df.rows[i][c] = df0.rows[i][c]
        /\ calls = 1 =>
              \A i \in DOMAIN df.rows :
                 AloneGives(df0.rows[i]["TransactionName"], df0.rows[i]["NormalizedEntity"],
                            Four(df.rows[i]))
        /\ calls >= 2 => df = first

\* C10 witness: the second call has returned on a table of two records with
\* the same name and entity whose four columns held different stale values
C10_Witness ==
    /\ pc = "enrich_done"
    /\ calls = 2
    /\ FourCols \subseteq Cols(df0)
    /\ \E i, j \in DOMAIN df0.rows :
          /\ i # j
          /\ df0.rows[i]["TransactionName"] = df0.rows[j]["TransactionName"]
          /\ df0.rows[i]["NormalizedEntity"] = df0.rows[j]["NormalizedEntity"]
          /\ df0.rows[i]["Reason"] # Lbl(NoRuleMatched)
          /\ df0.rows[j]["Reason"] = Lbl(NoRuleMatched)
          /\ MatchingRules(df0.rows[i]) # {}

----------------------------------------------------------------------------
(* enrich_transactions with an edited rule table: the rule list is static  *)
(* configuration, so a rule added to it is there from the first call on.   *)

\* r'(stripe|paypal' : re.compile rejects the pattern
MalformedRule ==
    [pattern |-> [compiles |-> FALSE, alts |-> <<>>],
     merchant_class |-> "payment gateway",
     transaction_class |-> "online payment",
     is_credit_card |-> 0,
     reason |-> "payment gateway matched"]

\* r'nan'
NanRule ==
    Rule(<<<<"n","a","n">>>>, "dining", "food & drinks", 0, "nan matched")

InsertAt(seq, k, e) == SubSeq(seq, 1, k - 1) \o <<e>> \o SubSeq(seq, k, Len(seq))

RuleTables ==
    {rules}
    \cup {InsertAt(rules, k, MalformedRule) : k \in 1..(Len(rules) + 1)}
    \cup {InsertAt(rules, k, NanRule) : k \in 1..(Len(rules) + 1)}

PlainInputs ==
    UNION { { PlainTable(recs) : recs \in [1..n -> TxnRecords] } : n \in 1..MaxRows }

InitRuleTable == \E t \in PlainInputs : \E rl \in RuleTables : InitEnrichWith(t, rl)

SpecRuleTable == InitRuleTable /\ [][Next]_vars

\* C4: a missing TransactionName or NormalizedEntity never satisfies a
\* pattern, whichever patterns the rule list holds: a record whose name and
\* entity are both missing ends with the defaults and the sentinel Reason.
C4_MissingNeverMatches ==
    pc = "enrich_done" =>
        \A i \in DOMAIN df.rows :
           (IsMissing(df0.rows[i]["TransactionName"]) /\ IsMissing(df0.rows[i]["NormalizedEntity"]))
              => Four(df.rows[i]) = Defaults

\* C8: a malformed pattern is rejected when the rule set is loaded: no call
\* fails on it after the table has been touched (columns initialised, earlier
\* rules applied).
C8_MalformedRejectedAtLoad ==
    exc.type = "re.error" => df = df0

----------------------------------------------------------------------------
(* preprocessing.py: cell conversions.                                     *)

Digits == <<"0","1","2","3","4","5","6","7","8","9">>
IsDigit(c) == \E d \in DOMAIN Digits : Digits[d] = c
DigitValue(c) == (CHOOSE d \in DOMAIN Digits : Digits[d] = c) - 1

AllDigits(s) == s # <<>> /\ \A i \in DOMAIN s : IsDigit(s[i])

RECURSIVE DecimalValue(_)
DecimalValue(s) ==
    IF s = <<>> THEN 0
    ELSE 10 * DecimalValue(SubSeq(s, 1, Len(s) - 1)) + DigitValue(s[Len(s)])

OverflowText == <<"#","#","#","#","#","#","#","#">>

\* Series.replace('########', np.nan) on one cell
ReplaceOverflow(cell) ==
    IF cell = Str(OverflowText) THEN NaN ELSE cell

\* pd.to_numeric(errors='coerce') on one cell: a number stays, a text of
\* decimal digits (surrounding blanks allowed) is parsed, anything else is NaN
ToNumeric(cell) ==
    CASE cell.k = "num" -> cell
      [] cell.k = "str" ->
            IF AllDigits(Strip(cell.v)) THEN Num(DecimalValue(Strip(cell.v))) ELSE NaN
      [] OTHER -> NaN

\* mutant: the overflow placeholder is read as the number 0
FixCellZero(cell) ==
    IF cell = Str(OverflowText) THEN Num(0) ELSE ToNumeric(cell)

\* one cell through the two statements of fix_excel_overflow's loop body
FixCell(cell) == ToNumeric(ReplaceOverflow(cell))

\* pd.to_datetime(errors='coerce') on one cell: 'YYYY-MM-DD' with a month in
\* 1..12 and a day in 1..31 is parsed, anything else is NaT
ParseDate(cell) ==
    IF /\ cell.k = "str"
       /\ Len(cell.v) = 10
       /\ cell.v[5] = "-" /\ cell.v[8] = "-"
       /\ \A i \in {1, 2, 3, 4, 6, 7, 9, 10} : IsDigit(cell.v[i])
       /\ DecimalValue(SubSeq(cell.v, 6, 7)) \in 1..12
       /\ DecimalValue(SubSeq(cell.v, 9, 10)) \in 1..31
    THEN Date(DecimalValue(SubSeq(cell.v, 1, 4)) * 10000
              + DecimalValue(SubSeq(cell.v, 6, 7)) * 100
              + DecimalValue(SubSeq(cell.v, 9, 10)))
    ELSE IF cell.k = "date" THEN cell ELSE NaT

\* Series.fillna(0) on one cell
FillNa0(cell) == IF cell.k = "nan" THEN Num(0) ELSE cell

\* mutant: no fillna, a missing side makes the difference missing
ConvertCellNoFill(credit, debit) ==
    IF credit.k = "nan" \/ debit.k = "nan" THEN NaN ELSE Num(credit.v - debit.v)

\* df[credit_col].fillna(0) - df[debit_col].fillna(0) on one row
ConvertCell(credit, debit) == Num(FillNa0(credit).v - FillNa0(debit).v)

\* (df[amount_col] > 0).astype(int), (df[amount_col] < 0).astype(int)
CreditFlag(amount) == IF amount.k = "num" /\ amount.v > 0 THEN Num(1) ELSE Num(0)
DebitFlag(amount) == IF amount.k = "num" /\ amount.v < 0 THEN Num(1) ELSE Num(0)

\* the default noise_patterns: ['electronic', 'web auth']
DefaultNoise ==
    << <<"e","l","e","c","t","r","o","n","i","c">>,
       <<"w","e","b"," ","a","u","t","h">> >>

\* the inner loop of normalize_text_fields from pattern k on
RECURSIVE RemoveNoise(_, _, _)
RemoveNoise(s, patterns, k) ==
    IF k > Len(patterns) THEN s
    ELSE RemoveNoise(Strip(ReplaceAllOnce(patterns[k], s)), patterns, k + 1)

\* normalize_text_fields on one cell; the .str methods leave a missing
\* value missing
NormalizeCell(cell, patterns) ==
    LET c == AsTypeStr(cell)
    IN  IF c.k = "nan" THEN NaN
        ELSE Str(RemoveNoise(Strip(Lower(c.v)), patterns, 1))

----------------------------------------------------------------------------
(* validate_schema(df, expected_columns, numeric_cols, date_cols): the     *)
(* exception it raises, or NoExc when it returns df.                       *)

IsNumericDtype(dt) == dt \in {"int64", "float64"}
IsDatetimeDtype(dt) == dt = "datetime64"

\* a type-check loop from position k on: df[col] raises KeyError for an
\* absent column, then the dtype test raises TypeError
RECURSIVE CheckDtypes(_, _, _, _)
CheckDtypes(t, cols, k, wantNumeric) ==
    IF k > Len(cols) THEN NoExc
    ELSE IF cols[k] \notin Cols(t) THEN Raise("KeyError", <<cols[k]>>)
    ELSE IF wantNumeric /\ ~IsNumericDtype(t.dtypes[cols[k]])
         THEN Raise("TypeError", <<cols[k]>>)
    ELSE IF ~wantNumeric /\ ~IsDatetimeDtype(t.dtypes[cols[k]])
         THEN Raise("TypeError", <<cols[k]>>)
    ELSE CheckDtypes(t, cols, k + 1, wantNumeric)

\* mutant: the type checks run before the column check
validate_schema_types_first(t, a) ==
    LET missing == SelectSeq(a.expected, LAMBDA c : c \notin Cols(t))
        numeric == CheckDtypes(t, a.numeric, 1, TRUE)
        date    == CheckDtypes(t, a.date, 1, FALSE)
    IN  IF numeric # NoExc THEN numeric
        ELSE IF date # NoExc THEN date
        ELSE IF missing # <<>> THEN Raise("ValueError", missing)
        ELSE NoExc

validate_schema(t, a) ==
    LET missing == SelectSeq(a.expected, LAMBDA c : c \notin Cols(t))
        numeric == CheckDtypes(t, a.numeric, 1, TRUE)
    IN  IF missing # <<>> THEN Raise("ValueError", missing)
        ELSE IF numeric # NoExc THEN numeric
        ELSE CheckDtypes(t, a.date, 1, FALSE)

----------------------------------------------------------------------------
(* preprocessing.py: the column functions.  Each gives the table it leaves *)
(* behind and the exception it raised (df[col] raises KeyError for an      *)
(* absent column, after the columns before it have been assigned).         *)

Result(t, e) == [df |-> t, exc |-> e]

RECURSIVE parse_dates(_, _, _)
parse_dates(t, date_columns, k) ==
    IF k > Len(date_columns) THEN Result(t, NoExc)
    ELSE IF date_columns[k] \notin Cols(t)
         THEN Result(t, Raise("KeyError", <<date_columns[k]>>))
    ELSE parse_dates(
            SetColumn(t, date_columns[k], "datetime64",
                      [i \in DOMAIN t.rows |-> ParseDate(t.rows[i][date_columns[k]])]),
            date_columns, k + 1)

RECURSIVE fix_excel_overflow(_, _, _)
fix_excel_overflow(t, numeric_columns, k) ==
    IF k > Len(numeric_columns) THEN Result(t, NoExc)
    ELSE IF numeric_columns[k] \notin Cols(t)
         THEN Result(t, Raise("KeyError", <<numeric_columns[k]>>))
    ELSE fix_excel_overflow(
            SetColumn(t, numeric_columns[k], "float64",
                      [i \in DOMAIN t.rows |-> FixCell(t.rows[i][numeric_columns[k]])]),
            numeric_columns, k + 1)

convert_credit_debit(t, credit_col, debit_col, new_amount_col) ==
    IF credit_col \notin Cols(t) THEN Result(t, Raise("KeyError", <<credit_col>>))
    ELSE IF debit_col \notin Cols(t) THEN Result(t, Raise("KeyError", <<debit_col>>))
    ELSE Result(SetColumn(t, new_amount_col, "float64",
                          [i \in DOMAIN t.rows |->
                              ConvertCell(t.rows[i][credit_col], t.rows[i][debit_col])]),
                NoExc)

RECURSIVE normalize_text_fields(_, _, _, _)
normalize_text_fields(t, text_columns, noise_patterns, k) ==
    IF k > Len(text_columns) THEN Result(t, NoExc)
    ELSE IF text_columns[k] \notin Cols(t)
         THEN Result(t, Raise("KeyError", <<text_columns[k]>>))
    ELSE normalize_text_fields(
            SetColumn(t, text_columns[k], "object",
                      [i \in DOMAIN t.rows |->
                          NormalizeCell(t.rows[i][text_columns[k]], noise_patterns)]),
            text_columns, noise_patterns, k + 1)

flag_credit_debit(t, amount_col, credit_flag_col, debit_flag_col) ==
    IF amount_col \notin Cols(t) THEN Result(t, Raise("KeyError", <<amount_col>>))
    ELSE LET t1 == SetColumn(t, credit_flag_col, "int64",
                             [i \in DOMAIN t.rows |-> CreditFlag(t.rows[i][amount_col])])
         IN  Result(SetColumn(t1, debit_flag_col, "int64",
                              [i \in DOMAIN t.rows |-> DebitFlag(t.rows[i][amount_col])]),
                    NoExc)

----------------------------------------------------------------------------
(* preprocess_data(file_path), one action per numbered step, and the       *)
(* caller that hands its result to enrich_transactions.                    *)

\* the column names preprocess_data fixes
PrepArgs ==
    [expected |-> <<"Date", "Description", "SignedAmount", "IsCredit", "IsDebit">>,
     numeric  |-> <<"SignedAmount", "IsCredit", "IsDebit">>,
     date     |-> <<"Date">>]

\* a step: run it, go on to `next` or stop at the exception
PrepStep(here, result, next) ==
    /\ pc = here
    /\ df' = result.df
    /\ exc' = result.exc
    /\ pc' = IF result.exc = NoExc THEN next ELSE "prep_raised"
    /\ UNCHANGED <<df0, ruleIdx, ruleTable, calls, first, build, vargs, noise>>

PrepParseDates ==
    PrepStep("prep_parse_dates", parse_dates(df, <<"Date">>, 1), "prep_fix_overflow")

PrepFixOverflow ==
    PrepStep("prep_fix_overflow", fix_excel_overflow(df, <<"Credit", "Debit">>, 1), "prep_convert")

PrepConvert ==
    PrepStep("prep_convert", convert_credit_debit(df, "Credit", "Debit", "SignedAmount"),
             "prep_normalize")

PrepNormalize ==
    PrepStep("prep_normalize", normalize_text_fields(df, <<"Description">>, DefaultNoise, 1),
             "prep_flag")

PrepFlag ==
    PrepStep("prep_flag", flag_credit_debit(df, "SignedAmount", "IsCredit", "IsDebit"),
             "prep_validate")

\* step 7 and the return
PrepValidate ==
    PrepStep("prep_validate", Result(df, validate_schema(df, PrepArgs)), "prep_done")

\* enriched = enrich_transactions(preprocess_data(path))
Compose ==
    /\ pc = "prep_done"
    /\ pc' = "enrich_call"
    /\ UNCHANGED <<df, df0, ruleIdx, ruleTable, calls, first, exc, build, vargs, noise>>

----------------------------------------------------------------------------
(* Raw tables read_data returns: the Date / Description / Credit / Debit   *)
(* layout, the same without its Debit column, and the same with            *)
(* TransactionName and NormalizedEntity columns beside it.                 *)

RawRecord(date, description, credit, debit) ==
    [Date |-> date, Description |-> description, Credit |-> credit, Debit |-> debit]

RawRecords ==
    { \* '2023-01-01', 'ELECTRONIC PAYMENT', 100, missing
      RawRecord(Str(<<"2","0","2","3","-","0","1","-","0","1">>),
                Str(<<"E","L","E","C","T","R","O","N","I","C"," ","P","A","Y","M","E","N","T">>),
                Num(100), NaN),
      \* '2023-01-01', 'WEB AUTH PURCHASE', missing, 25
      RawRecord(Str(<<"2","0","2","3","-","0","1","-","0","1">>),
                Str(<<"W","E","B"," ","A","U","T","H"," ","P","U","R","C","H","A","S","E">>),
                NaN, Num(25)),
      \* '########', 'ATM WITHDRAWAL', missing, '########'
      RawRecord(Str(OverflowText),
                Str(<<"A","T","M"," ","W","I","T","H","D","R","A","W","A","L">>),
                NaN, Str(OverflowText)),
      \* '2023-01-01', missing, '########', 50
      RawRecord(Str(<<"2","0","2","3","-","0","1","-","0","1">>), NaN,
                Str(OverflowText), Num(50)),
      \* '2023-01-01', 'SALARY', missing, missing
      RawRecord(Str(<<"2","0","2","3","-","0","1","-","0","1">>),
                Str(<<"S","A","L","A","R","Y">>), NaN, NaN),
      \* '2023-01-01', 'SALARY', ' 50 ', 50
      RawRecord(Str(<<"2","0","2","3","-","0","1","-","0","1">>),
                Str(<<"S","A","L","A","R","Y">>), Str(<<" ","5","0"," ">>), Num(50)),
      \* '2023-01-01', 'SALARY', 'n/a', 25
      RawRecord(Str(<<"2","0","2","3","-","0","1","-","0","1">>),
                Str(<<"S","A","L","A","R","Y">>), Str(<<"n","/","a">>), Num(25)) }

LayoutA == {"Date", "Description", "Credit", "Debit"}

RawDtypes == [c \in LayoutA |-> "object"]

RawTable(recs) == [dtypes |-> RawDtypes, rows |-> recs]

\* the table without column c
DropColumn(t, c) ==
    [dtypes |-> [x \in Cols(t) \ {c} |-> t.dtypes[x]],
     rows   |-> [i \in DOMAIN t.rows |-> [x \in Cols(t) \ {c} |-> t.rows[i][x]]]]

\* the table with name and entity columns added
WithNames(t) ==
    SetScalar(SetScalar(t, "TransactionName", "object", Str(<<"P","a","y","P","a","l">>)),
              "NormalizedEntity", "object", NaN)

RawInputs ==
    UNION { UNION { {RawTable(recs), DropColumn(RawTable(recs), "Debit"), WithNames(RawTable(recs))}
                    : recs \in [1..n -> RawRecords] }
            : n \in 1..MaxRows }

InitPipeline ==
    \E t \in RawInputs :
        /\ df = t
        /\ df0 = t
        /\ pc = "prep_parse_dates"
        /\ ruleIdx = 1
        /\ ruleTable = rules
        /\ calls = 0
        /\ first = t
        /\ exc = NoExc
        /\ build \in Builds
        /\ vargs = PrepArgs
        /\ noise = DefaultNoise

NextPipeline ==
    \/ PrepParseDates \/ PrepFixOverflow \/ PrepConvert \/ PrepNormalize
    \/ PrepFlag \/ PrepValidate \/ Compose
    \/ EnrichInit \/ EnrichRule \/ EnrichReturn

SpecPipeline == InitPipeline /\ [][NextPipeline]_vars

\* C3: every raw table of the Date/Description/Credit/Debit layout that
\* preprocess_data returns a table for goes through enrich_transactions
\* without an exception.
C3_PipelineComposes ==
    Cols(df0) = LayoutA => pc # "enrich_raised"

\* a side of the amount with a missing value counted as 0
Or0(cell) == IF cell.k = "num" THEN cell.v ELSE 0

\* C5: SignedAmount is credit - debit with a missing side counted as 0;
\* IsCredit is 1 exactly when it is positive and IsDebit exactly when it is
\* negative, so both missing or credit = debit gives 0 and both flags 0, and
\* the flags are never both 1.
C5_SignedAmountAndFlags ==
    \A i \in DOMAIN df.rows :
       LET row == df.rows[i]
           amount == Or0(row["Credit"]) - Or0(row["Debit"])
       IN  /\ "SignedAmount" \in Cols(df) => row["SignedAmount"] = Num(amount)
           /\ "IsDebit" \in Cols(df) =>
                 /\ row["IsCredit"] = (IF amount > 0 THEN Num(1) ELSE Num(0))
                 /\ row["IsDebit"] = (IF amount < 0 THEN Num(1) ELSE Num(0))
                 /\ ~(row["IsCredit"] = Num(1) /\ row["IsDebit"] = Num(1))
                 /\ (IsMissing(row["Credit"]) /\ IsMissing(row["Debit"])) =>
                       /\ row["SignedAmount"] = Num(0)
                       /\ row["IsCredit"] = Num(0)
                       /\ row["IsDebit"] = Num(0)

\* C5 witness: preprocess_data returned a table with a row whose credit and
\* debit are both missing, a row with equal credit and debit, and a debit row
C5_Witness ==
    /\ pc = "prep_done"
    /\ \E i \in DOMAIN df.rows :
          /\ IsMissing(df.rows[i]["Credit"]) /\ IsMissing(df.rows[i]["Debit"])
          /\ df.rows[i]["IsCredit"] = Num(0) /\ df.rows[i]["IsDebit"] = Num(0)
    /\ \E i \in DOMAIN df.rows :
          \/ /\ df.rows[i]["Credit"] = Num(50) /\ df.rows[i]["Debit"] = Num(50)
             /\ df.rows[i]["SignedAmount"] = Num(0)
          \/ /\ df.rows[i]["SignedAmount"] = Num(-25)
             /\ df.rows[i]["IsDebit"] = Num(1)

\* fix_excel_overflow has returned
OverflowFixed ==
    pc \in {"prep_convert", "prep_normalize", "prep_flag", "prep_validate", "prep_done",
            "enrich_call", "enrich_loop", "enrich_done", "enrich_raised"}

\* a raw cell pd.to_numeric cannot read as a number
NotCoercible(cell) ==
    /\ cell.k = "str"
    /\ \/ \A i \in DOMAIN cell.v : IsSpace(cell.v[i])
       \/ \E i \in DOMAIN cell.v : ~IsDigit(cell.v[i]) /\ ~IsSpace(cell.v[i])

\* C7: once fix_excel_overflow has run, and still in the table
\* preprocess_data returns, a Credit or Debit cell that held '########' or any
\* other non-coercible value is missing (not 0), and no cell value makes
\* preprocess_data raise.
C7_OverflowBecomesMissing ==
    /\ OverflowFixed =>
          \A i \in DOMAIN df.rows : \A c \in {"Credit", "Debit"} :
             /\ df0.rows[i][c] = Str(OverflowText) => df.rows[i][c] = NaN
             /\ NotCoercible(df0.rows[i][c]) => df.rows[i][c] = NaN
    /\ pc = "prep_raised" => exc.type = "KeyError"

\* C7 witness: preprocess_data returned a table one of whose Credit cells was
\* the overflow placeholder and is missing
C7_Witness ==
    /\ pc = "prep_done"
    /\ \E i \in DOMAIN df.rows :
          /\ df0.rows[i]["Credit"] = Str(OverflowText)
          /\ df.rows[i]["Credit"] = NaN
          /\ df.rows[i]["SignedAmount"] = Num(-50)

----------------------------------------------------------------------------
(* validate_schema called on tables of any schema.                         *)

ValidateCall ==
    /\ pc = "validate_call"
    /\ exc' = validate_schema(df, vargs)
    /\ pc' = IF validate_schema(df, vargs) = NoExc THEN "validate_done" ELSE "validate_raised"
    /\ UNCHANGED <<df, df0, ruleIdx, ruleTable, calls, first, build, vargs, noise>>

SchemaCols == {"Date", "Description", "SignedAmount", "IsCredit"}
Dtypes == {"object", "float64", "int64", "datetime64"}

\* a cell of a column of the dtype
CellOf(dt) ==
    CASE dt = "object" -> Str(<<"x">>)
      [] dt = "datetime64" -> Date(20230101)
      [] OTHER -> Num(1)

\* one-row tables over every subset of SchemaCols, every column of any dtype
SchemaTables ==
    UNION { { [dtypes |-> d, rows |-> << [c \in cs |-> CellOf(d[c])] >>] : d \in [cs -> Dtypes] }
            : cs \in SUBSET SchemaCols }

ValidateArgs ==
    { [expected |-> <<"Date", "Description", "SignedAmount", "IsCredit">>,
       numeric  |-> <<"SignedAmount", "IsCredit">>,
       date     |-> <<"Date">>],
      [expected |-> <<"Date", "SignedAmount">>,
       numeric  |-> <<"SignedAmount", "IsCredit">>,
       date     |-> <<"Date">>],
      [expected |-> <<"Description">>,
       numeric  |-> <<>>,
       date     |-> <<"Date">>] }

InitValidate ==
    \E t \in SchemaTables : \E a \in ValidateArgs :
        /\ df = t
        /\ df0 = t
        /\ pc = "validate_call"
        /\ ruleIdx = 1
        /\ ruleTable = rules
        /\ calls = 0
        /\ first = t
        /\ exc = NoExc
        /\ build = "nan_text"
        /\ vargs = a
        /\ noise = DefaultNoise

SpecValidate == InitValidate /\ [][ValidateCall]_vars

Range(seq) == {seq[i] : i \in DOMAIN seq}

----------------------------------------------------------------------------
(* normalize_text_fields called with any noise list.                       *)

NormalizeCall ==
    /\ pc = "normalize_call"
    /\ df' = normalize_text_fields(df, <<"Description">>, noise, 1).df
    /\ exc' = normalize_text_fields(df, <<"Description">>, noise, 1).exc
    /\ pc' = "normalize_done"
    /\ UNCHANGED <<df0, ruleIdx, ruleTable, calls, first, build, vargs, noise>>

NoiseTexts ==
    { \* 'ELECTRONIC PAYMENT'
      Str(<<"E","L","E","C","T","R","O","N","I","C"," ","P","A","Y","M","E","N","T">>),
      \* '  Web Auth purchase '
      Str(<<" "," ","W","e","b"," ","A","u","t","h"," ","p","u","r","c","h","a","s","e"," ">>),
      \* 'elecelectronictronic fee'
      Str(<<"e","l","e","c","e","l","e","c","t","r","o","n","i","c","t","r","o","n","i","c"," ","f","e","e">>),
      \* 'electroweb authnic'
      Str(<<"e","l","e","c","t","r","o","w","e","b"," ","a","u","t","h","n","i","c">>),
      \* 'SALARY'
      Str(<<"S","A","L","A","R","Y">>),
      NaN }

NoiseLists ==
    { DefaultNoise,
      << <<"w","e","b"," ","a","u","t","h">> >>,
      << >> }

InitNormalize ==
    \E n \in 1..MaxRows : \E cells \in [1..n -> NoiseTexts] : \E nl \in NoiseLists :
        /\ df = [dtypes |-> [Description |-> "object"],
                 rows   |-> [i \in 1..n |-> [Description |-> cells[i]]]]
        /\ df0 = df
        /\ pc = "normalize_call"
        /\ ruleIdx = 1
        /\ ruleTable = rules
        /\ calls = 0
        /\ first = df
        /\ exc = NoExc
        /\ build \in Builds
        /\ vargs = NoArgs
        /\ noise = nl

SpecNormalize == InitNormalize /\ [][NormalizeCall]_vars

\* C9: every text normalize_text_fields produces is lowercase, has no
\* leading or trailing whitespace and contains no configured noise substring.
C9_NoiseRemoved ==
    pc = "normalize_done" =>
        \A i \in DOMAIN df.rows :
           LET cell == df.rows[i]["Description"]
           IN  cell.k = "str" =>
                  /\ Lower(cell.v) = cell.v
                  /\ Strip(cell.v) = cell.v
                  /\ \A p \in DOMAIN noise : ~Occurs(noise[p], cell.v)

====
